---- MODULE Spec2Model ----
(***************************************************************************)
(* The ScreenCaptureKit capture session of Apollo on macOS:                *)
(*   - ApolloScreenCapture (screencapture.mm): capture:, stopCapture, the  *)
(*     start/stop completion handlers, stream:didOutputSampleBuffer:ofType:*)
(*     stream:didStopWithError: and captureSingleFrame:;                   *)
(*   - sc_display_t (display.mm): capture(), dummy_img() and the frame     *)
(*     callback blocks that perform the hand-off into an Image.            *)
(* The native stream (SCStream) is the environment: it processes start and *)
(* stop requests asynchronously, runs each completion handler once on a    *)
(* queue of its own, and delivers frames on the serial capture queue while *)
(* it is running.                                                          *)
(*   - platf::display with -[ApolloScreenCapture initWithDisplay:frameRate:]*)
(*     (session setup), sc_display_t::make_avcodec_encode_device and       *)
(*     nv12_zero_device (init, set_frame, convert) with platf::free_frame. *)
(* Three specifications:                                                   *)
(*   Spec          a session that was set up, capturing through capture(), *)
(*                 dummy_img() and captureSingleFrame:; every delivered    *)
(*                 frame carries pixel data;                               *)
(*   SpecAnyFrame  the same, with samples without a pixel buffer delivered *)
(*                 too;                                                    *)
(*   SpecDisplay   session setup, device selection, the encoder's frame    *)
(*                 binding and the start of the stream.                    *)
(***************************************************************************)
EXTENDS Integers, Sequences, FiniteSets, TLC

\* ------------------------------------------------------------------ bounds
\* The environment's budget: calls of capture(), dummy_img() and
\* captureSingleFrame, delivered frames, outside stop requests, stream errors
\* and waits that time out, all together.
MaxEvents == 4
\* The Images of the consumer's pool.
NumImages == 1

\* Calls of capture()/dummy_img() are numbered in the order they are made.
Calls == 1..MaxEvents
\* Image 0 is the probe Image handed to dummy_img; 1..NumImages is the
\* consumer's pool, the Images pull_cb can supply.
ProbeImage == 0
PoolImages == 1..NumImages
Images == {ProbeImage} \cup PoolImages
NoImage == -1

\* Native layouts a delivered frame can have: width, height, bytes per row.
FrameKinds == {[w |-> 2, h |-> 1, bpr |-> 8], [w |-> 3, h |-> 2, bpr |-> 13]}
\* A sample buffer that carries no pixel buffer (the stream also delivers
\* status-only samples): CMSampleBufferGetImageBuffer gives NULL, and the
\* CVPixelBufferGet... functions give 0 for it.
NoPixels == [w |-> 0, h |-> 0, bpr |-> 0]

VARIABLES
  \* ApolloScreenCapture properties
  isCapturing, frameCallback, captureSemaphore,
  \* the dispatch semaphores created by capture:, one per call
  semValue, sigLog,
  \* the native stream
  streamOn, requests, handlers,
  \* the thread that calls capture() / dummy_img()
  callNo, callKind, callState, result, permitted,
  \* captureSingleFrame: the locals of each call that its frame callback shares
  frameSemaphore, frameReceived, capturedBuffer, frameResult, nTimeouts,
  \* the capture queue running the frame callback
  dpc, cb, cur, new_sample_buffer, new_pixel_buffer, tgt, img_out, old_data_retainer, cbret,
  \* Images
  img,
  \* counters and history
  nFrames, nStops, nErrors, hOld, written, stats, stopAsked,
  \* platf::display: the sc_display_t it builds and what it returns
  display_id, sc_capture, displayRet,
  \* ApolloScreenCapture configuration properties and its stream
  displayID, frameWidth, frameHeight, pixelFormat, streamConfig, stream,
  \* initWithDisplay:frameRate: -- its locals and the shareable-content handler
  setupPc, setupSemaphore, setupComplete, waitResult, contentHandler, content,
  \* the encode device and the encoder's frame
  device, pix_fmt, frame, retains, releases, convertRet, startedFormat,
  nDeviceCalls, lastCall,
  \* the pixel buffer of the Image the last convert() was given, 0 for none
  convertImg,
  \* per pixel buffer, the encoder frames of earlier devices still bound to it
  oldFrames,
  \* the host: whether @available(macOS 14.0, *) holds
  macos14

sessVars == <<isCapturing, frameCallback, captureSemaphore>>
semVars == <<semValue, sigLog>>
nativeVars == <<streamOn, requests, handlers>>
singleVars == <<frameSemaphore, frameReceived, capturedBuffer, frameResult, nTimeouts>>
callerVars == <<callNo, callKind, callState, result, permitted, singleVars>>
cbVars == <<dpc, cb, cur, new_sample_buffer, new_pixel_buffer, tgt, img_out, old_data_retainer,
            cbret>>
histVars == <<nFrames, nStops, nErrors, hOld, written, stats, stopAsked>>
captureVars == <<sessVars, semVars, nativeVars, callerVars, cbVars, img, histVars>>
propVars == <<displayID, frameWidth, frameHeight, pixelFormat, streamConfig, stream>>
setupVars == <<display_id, sc_capture, displayRet, setupPc, setupSemaphore, setupComplete,
               waitResult, contentHandler, content>>
encVars == <<device, pix_fmt, frame, retains, releases, convertRet, nDeviceCalls, lastCall,
             convertImg, oldFrames>>
devVars == <<encVars, startedFormat>>
dispVars == <<propVars, setupVars, devVars, macos14>>
vars == <<captureVars, dispVars>>

\* ------------------------------------------------------------------ Images
\* alloc_img: a value-initialised av_img_t, bound to no native buffer.
EmptyImg ==
  [sample_buffer |-> 0, pixel_buffer |-> 0, data |-> 0,
   width |-> 0, height |-> 0, row_pitch |-> 0, pixel_pitch |-> 0]

\* The fields a hand-off overwrites, in no particular order.
FieldNames ==
  {"sample_buffer", "pixel_buffer", "data", "width", "height", "row_pitch", "pixel_pitch"}

\* The pixel wrapper made for frame id: wrappers of a pixel buffer are named
\* by the frame, wrappers of no buffer by the negated frame.
PixelWrapper(id, kind) == IF kind = NoPixels THEN 0 - id ELSE id

\* av_pixel_buf_t::data(): the base address of the pixel buffer of frame f,
\* the null address for a wrapper of no buffer.
DataOf(f) == IF f > 0 THEN f ELSE 0

\* No frame is being delivered.
NoFrame == [id |-> 0, w |-> 0, h |-> 0, bpr |-> 0]

\* The Retain Guard (temp_retain_av_img_t): joint owner of the old wrappers.
NoRetain == [live |-> FALSE, s |-> 0, p |-> 0, d |-> 0]

\* A guard that snapshots nothing of the Image.
RetainNothing(i) == [live |-> TRUE, s |-> 0, p |-> 0, d |-> 0]

\* The guard built from the target Image's current wrappers and data pointer.
RetainOld(i) ==
  [live |-> TRUE, s |-> img[i].sample_buffer, p |-> img[i].pixel_buffer, d |-> img[i].data]

\* Number of shared_ptr holders of the sample wrapper of frame f.
SampleUse(f) ==
  Cardinality({i \in Images : img[i].sample_buffer = f})
    + (IF old_data_retainer.s = f THEN 1 ELSE 0)
    + (IF new_sample_buffer = f THEN 1 ELSE 0)

\* Number of shared_ptr holders of the pixel wrapper of frame f.
PixelUse(f) ==
  Cardinality({i \in Images : img[i].pixel_buffer = f})
    + (IF old_data_retainer.p = f THEN 1 ELSE 0)
    + (IF new_pixel_buffer = f THEN 1 ELSE 0)

\* A wrapper whose last holder is gone has released its native buffer.
SampleReleased(f) == f \in 1..nFrames /\ SampleUse(f) = 0
PixelReleased(f) == f \in 1..nFrames /\ PixelUse(f) = 0

\* ------------------------------------------------------------ the callbacks
\* The order of the capture() frame callback's steps after the wrappers are made.
CaptureStepsEarlyRelease ==
  <<"pull", "guard", "release", "sample_buffer", "pixel_buffer", "data",
    "width", "height", "row_pitch", "pixel_pitch", "push", "ret">>

CaptureSteps ==
  <<"pull", "guard", "sample_buffer", "pixel_buffer", "data",
    "width", "height", "row_pitch", "pixel_pitch", "release", "push", "ret">>

\* The order of the dummy_img() frame callback's steps.
DummySteps ==
  <<"guard", "sample_buffer", "pixel_buffer", "data",
    "width", "height", "row_pitch", "pixel_pitch", "release", "ret">>

\* The one step of the frame callback captureSingleFrame registers.
SingleSteps == <<"single", "ret">>

StepsOf(k) ==
  CASE callKind[k] = "dummy" -> DummySteps
    [] callKind[k] = "single" -> SingleSteps
    [] OTHER -> CaptureSteps

StepAfter(steps, s) ==
  LET n == CHOOSE j \in 1..Len(steps) : steps[j] = s IN steps[n + 1]

\* A hand-off that installs the new sample wrapper and leaves the old pixel
\* wrapper in place.
NewValueStalePixel(field) ==
  CASE field = "sample_buffer" -> new_sample_buffer
    [] field = "pixel_buffer" -> old_data_retainer.p
    [] field = "data" -> DataOf(new_pixel_buffer)
    [] field = "width" -> cur.w
    [] field = "height" -> cur.h
    [] field = "row_pitch" -> cur.bpr
    [] field = "pixel_pitch" -> img[tgt].row_pitch \div img[tgt].width

\* A hand-off that writes the frame's height as width and its width as height.
NewValueSwapped(field) ==
  CASE field = "sample_buffer" -> new_sample_buffer
    [] field = "pixel_buffer" -> new_pixel_buffer
    [] field = "data" -> DataOf(new_pixel_buffer)
    [] field = "width" -> cur.h
    [] field = "height" -> cur.w
    [] field = "row_pitch" -> cur.bpr
    [] field = "pixel_pitch" -> img[tgt].row_pitch \div img[tgt].width

\* The value a hand-off writes into a field of the target Image.
NewValue(field) ==
  CASE field = "sample_buffer" -> new_sample_buffer
    [] field = "pixel_buffer" -> new_pixel_buffer
    [] field = "data" -> DataOf(new_pixel_buffer)
    [] field = "width" -> cur.w
    [] field = "height" -> cur.h
    [] field = "row_pitch" -> cur.bpr
    [] field = "pixel_pitch" -> img[tgt].row_pitch \div img[tgt].width

\* The references the frame callback of capture() holds to Image i: `img_out`
\* from pull_cb until the consumer moves it out in push_cb or the callback
\* returns, and `av_img`, the copy the pointer cast makes, until the callback
\* returns.
ImageRefs(i) ==
  (IF img_out = i THEN 1 ELSE 0) + (IF tgt = i THEN 1 ELSE 0)

\* ------------------------------------------------------------- the session
\* Environment events so far, and whether the budget allows one more.
Events == callNo + nFrames + nStops + nErrors + nTimeouts
MayHappen == Events < MaxEvents

\* The process has not been ended by a trap.
Alive == dpc # "crashed"

\* Completion handlers the native stream still has to run: a start that
\* succeeded, a start that failed, a stop; each tagged with the call during
\* which its request was made.
HandlerIds == {"startOk", "startErr", "stop"} \X Calls

\* What is counted per call: invocations of pull_cb and push_cb by its frame
\* callback, pushes accepted and rejected, invocations made after the first
\* rejection, and completed hand-offs.
NoStats == [pulls |-> 0, pushes |-> 0, accepts |-> 0, rejects |-> 0, late |-> 0, handoffs |-> 0]

\* SCStreamConfiguration not yet created; SCStream not yet created.  `updates`
\* counts the updateConfiguration requests the stream was sent.
NoConfig == [pixelFormat |-> "none", width |-> 0, height |-> 0]
NoStream == [made |-> FALSE, pixelFormat |-> "none", width |-> 0, height |-> 0, updates |-> 0]

\* captureSingleFrame's capturedBuffer: the sample it retained, and whether it
\* has released it; NULL before a frame arrived.
NoCaptured == [sample |-> 0, released |-> FALSE]

InitCapture ==
  /\ macos14 \in BOOLEAN
  /\ isCapturing = FALSE
  /\ frameCallback = 0
  /\ captureSemaphore = 0
  /\ semValue = [k \in Calls |-> 0]
  /\ sigLog = [k \in Calls |-> <<>>]
  /\ streamOn = FALSE
  /\ requests = <<>>
  /\ handlers = [h \in HandlerIds |-> 0]
  /\ callNo = 0
  /\ callKind = [k \in Calls |-> "none"]
  /\ callState = "idle"
  /\ result = [k \in Calls |-> "none"]
  /\ permitted = [k \in Calls |-> TRUE]
  /\ frameSemaphore = [k \in Calls |-> 0]
  /\ frameReceived = [k \in Calls |-> FALSE]
  /\ capturedBuffer = [k \in Calls |-> NoCaptured]
  /\ frameResult = [k \in Calls |-> "none"]
  /\ nTimeouts = 0
  /\ dpc = "idle"
  /\ cb = 0
  /\ cur = NoFrame
  /\ new_sample_buffer = 0
  /\ new_pixel_buffer = 0
  /\ tgt = NoImage
  /\ img_out = NoImage
  /\ old_data_retainer = NoRetain
  /\ cbret = FALSE
  /\ img = [i \in Images |-> EmptyImg]
  /\ nFrames = 0
  /\ nStops = 0
  /\ nErrors = 0
  /\ hOld = EmptyImg
  /\ written = {}
  /\ stats = [k \in Calls |-> NoStats]
  /\ stopAsked = [k \in Calls |-> FALSE]

\* dispatch_semaphore_signal(self.captureSemaphore): the semaphore is read when
\* the signalling block runs; `by` names the block, `of` the call whose request
\* it completes (0 for the stream's own error notification).
Signal(by, of) ==
  IF captureSemaphore = 0
    THEN UNCHANGED semVars
    ELSE /\ semValue' = [semValue EXCEPT ![captureSemaphore] = @ + 1]
         /\ sigLog' = [sigLog EXCEPT ![captureSemaphore] = Append(@, [by |-> by, of |-> of])]

\* -[ApolloScreenCapture stopCapture] with the monitor held: nothing unless
\* isCapturing, else one more asynchronous stop request to the stream.
StopCapture ==
  /\ requests' = IF isCapturing
                   THEN Append(requests, [op |-> "stop", call |-> captureSemaphore])
                   ELSE requests
  /\ stopAsked' = IF callState # "idle"
                    THEN [stopAsked EXCEPT ![callNo] = TRUE]
                    ELSE stopAsked

\* -[ApolloScreenCapture capture:] as entered by call k: registers the frame
\* callback, creates a fresh semaphore and asks the stream to start.
CaptureEnter(k, kind) ==
  /\ dpc = "idle"
  /\ callNo' = k
  /\ callKind' = [callKind EXCEPT ![k] = kind]
  /\ callState' = IF kind = "single" THEN "waitingFrame" ELSE "waiting"
  /\ frameCallback' = k
  /\ captureSemaphore' = k
  \* a start sent to a nil stream does nothing
  /\ requests' = IF stream.made THEN Append(requests, [op |-> "start", call |-> k])
                 ELSE requests
  /\ UNCHANGED <<dispVars, isCapturing, semVars, streamOn, handlers, result, cbVars, img, histVars>>

\* sc_display_t::capture up to its wait on the semaphore.
Capture ==
  /\ displayRet = "display"
  /\ callState = "idle"
  /\ MayHappen
  /\ CaptureEnter(callNo + 1, "capture")
  /\ UNCHANGED <<permitted, singleVars>>

\* The permission test of dummy_img: proceed to the native path or not.
DummyProceedsAlways(allowed) == TRUE

DummyProceeds(allowed) == allowed

\* sc_display_t::dummy_img up to its wait on the semaphore, or its early return.
DummyImg(allowed) ==
  /\ displayRet = "display"
  /\ callState = "idle"
  /\ Alive
  /\ MayHappen
  /\ permitted' = [permitted EXCEPT ![callNo + 1] = allowed]
  /\ UNCHANGED singleVars
  /\ IF DummyProceeds(allowed)
       THEN CaptureEnter(callNo + 1, "dummy")
       ELSE /\ callNo' = callNo + 1
            /\ callKind' = [callKind EXCEPT ![callNo + 1] = "dummy"]
            /\ result' = [result EXCEPT ![callNo + 1] = "denied"]
            /\ UNCHANGED <<dispVars, callState, sessVars, semVars, nativeVars, cbVars, img, histVars>>

\* dispatch_semaphore_wait(signal, DISPATCH_TIME_FOREVER) can return.
WaitSatisfied(k) == semValue[k] > 0

\* What capture() returns once its wait is over.
CaptureResult == "ok"

\* What dummy_img() returns once its wait is over.
DummyResult == "success"

\* The blocked call returns.
CaptureReturn ==
  /\ callState = "waiting"
  /\ callKind[callNo] # "single"
  /\ Alive
  /\ WaitSatisfied(callNo)
  /\ semValue' = [semValue EXCEPT ![callNo] = IF @ > 0 THEN @ - 1 ELSE 0]
  /\ result' = [result EXCEPT ![callNo] =
                  IF callKind[callNo] = "dummy" THEN DummyResult ELSE CaptureResult]
  /\ callState' = "idle"
  /\ UNCHANGED <<dispVars, sessVars, sigLog, nativeVars, callNo, callKind, permitted, singleVars,
                 cbVars, img, histVars>>

\* -[ApolloScreenCapture captureSingleFrame:] up to its first wait or its
\* early return.  The session's content filter is set where its stream
\* configuration is.  On macOS 14 and later it asks for a screenshot, which
\* runs beside the session, and returns; before, it goes through capture:.
CaptureSingleFrame ==
  /\ displayRet = "display"
  /\ callState = "idle"
  /\ Alive
  /\ MayHappen
  /\ UNCHANGED <<permitted, singleVars>>
  /\ IF streamConfig = NoConfig \/ macos14
       THEN /\ callNo' = callNo + 1
            /\ callKind' = [callKind EXCEPT ![callNo + 1] = "single"]
            /\ result' = [result EXCEPT ![callNo + 1] =
                            IF streamConfig = NoConfig THEN "NO" ELSE "YES"]
            /\ UNCHANGED <<dispVars, callState, sessVars, semVars, nativeVars, cbVars, img, histVars>>
       ELSE CaptureEnter(callNo + 1, "single")

\* The wait of up to 3 s on frameSemaphore ends: signalled, or timed out.
SingleFrameWait ==
  /\ callState = "waitingFrame"
  /\ Alive
  /\ callState' = "waiting"
  /\ IF frameSemaphore[callNo] > 0
       THEN /\ frameSemaphore' = [frameSemaphore EXCEPT ![callNo] = @ - 1]
            /\ frameResult' = [frameResult EXCEPT ![callNo] = "signalled"]
            /\ UNCHANGED nTimeouts
       ELSE /\ MayHappen
            /\ frameResult' = [frameResult EXCEPT ![callNo] = "timedout"]
            /\ nTimeouts' = nTimeouts + 1
            /\ UNCHANGED frameSemaphore
  /\ UNCHANGED <<dispVars, sessVars, semVars, nativeVars, callNo, callKind, result, permitted,
                 frameReceived, capturedBuffer, cbVars, img, histVars>>

\* What captureSingleFrame returns after its waits.
SingleFrameResult(k) ==
  IF frameResult[k] # "signalled" \/ capturedBuffer[k].sample = 0 THEN "NO" ELSE "YES"

\* The wait of up to 2 s on the capture semaphore ends, signalled or timed
\* out; the completion handler is called, capturedBuffer is released if set,
\* and captureSingleFrame returns.
SingleFrameReturn ==
  /\ callState = "waiting"
  /\ callKind[callNo] = "single"
  /\ Alive
  /\ IF semValue[callNo] > 0
       THEN /\ semValue' = [semValue EXCEPT ![callNo] = @ - 1]
            /\ UNCHANGED nTimeouts
       ELSE /\ MayHappen
            /\ nTimeouts' = nTimeouts + 1
            /\ UNCHANGED semValue
  /\ result' = [result EXCEPT ![callNo] = SingleFrameResult(callNo)]
  /\ capturedBuffer' = [capturedBuffer EXCEPT ![callNo] =
                          IF @.sample # 0 THEN [@ EXCEPT !.released = TRUE] ELSE @]
  /\ callState' = "idle"
  /\ UNCHANGED <<dispVars, sessVars, sigLog, nativeVars, callNo, callKind, permitted,
                 frameSemaphore, frameReceived, frameResult, cbVars, img, histVars>>

\* stopCapture called from outside the frame callback (~sc_display_t, or any
\* other holder of the session).
StopRequest ==
  /\ dpc = "idle"
  /\ MayHappen
  /\ nStops' = nStops + 1
  /\ StopCapture
  /\ UNCHANGED <<dispVars, sessVars, semVars, streamOn, handlers, callerVars, cbVars, img,
                 nFrames, nErrors, hOld, written, stats>>

\* ---------------------------------------------------------- the native stream
\* The stream takes up a start request; it succeeds or fails.
NativeStart(ok) ==
  /\ requests # <<>>
  /\ Alive
  /\ Head(requests).op = "start"
  /\ requests' = Tail(requests)
  /\ streamOn' = (streamOn \/ ok)
  /\ startedFormat' = stream.pixelFormat
  /\ handlers' = [handlers EXCEPT
                    ![<<IF ok THEN "startOk" ELSE "startErr", Head(requests).call>>] = @ + 1]
  /\ UNCHANGED <<propVars, setupVars, encVars, macos14, sessVars, semVars, callerVars, cbVars, img,
                 histVars>>

\* The stream takes up a stop request.
NativeStop ==
  /\ requests # <<>>
  /\ Alive
  /\ Head(requests).op = "stop"
  /\ requests' = Tail(requests)
  /\ streamOn' = FALSE
  /\ handlers' = [handlers EXCEPT ![<<"stop", Head(requests).call>>] = @ + 1]
  /\ UNCHANGED <<dispVars, sessVars, semVars, callerVars, cbVars, img, histVars>>

\* startCaptureWithCompletionHandler's block, error == nil.
StartHandlerOk(k) ==
  /\ handlers[<<"startOk", k>>] > 0
  /\ Alive
  /\ handlers' = [handlers EXCEPT ![<<"startOk", k>>] = @ - 1]
  /\ isCapturing' = TRUE
  /\ UNCHANGED <<dispVars, frameCallback, captureSemaphore, semVars, streamOn, requests,
                 callerVars, cbVars, img, histVars>>

\* startCaptureWithCompletionHandler's block, error != nil.
StartHandlerErr(k) ==
  /\ handlers[<<"startErr", k>>] > 0
  /\ Alive
  /\ handlers' = [handlers EXCEPT ![<<"startErr", k>>] = @ - 1]
  /\ Signal("startErr", k)
  /\ UNCHANGED <<dispVars, sessVars, streamOn, requests, callerVars, cbVars, img, histVars>>

\* stopCaptureWithCompletionHandler's block.
StopHandler(k) ==
  /\ handlers[<<"stop", k>>] > 0
  /\ Alive
  /\ handlers' = [handlers EXCEPT ![<<"stop", k>>] = @ - 1]
  /\ isCapturing' = FALSE
  /\ Signal("stop", k)
  /\ UNCHANGED <<dispVars, frameCallback, captureSemaphore, streamOn, requests,
                 callerVars, cbVars, img, histVars>>

\* stream:didStopWithError: -- the stream stopped on its own.
StreamError ==
  /\ streamOn
  /\ dpc = "idle"
  /\ MayHappen
  /\ nErrors' = nErrors + 1
  /\ streamOn' = FALSE
  /\ isCapturing' = FALSE
  /\ Signal("error", 0)
  /\ UNCHANGED <<dispVars, frameCallback, captureSemaphore, requests, handlers, callerVars, cbVars, img,
                 nFrames, nStops, hOld, written, stats, stopAsked>>

\* A delivery that does not wait for the callback under way to return.
DeliverUnserialized(kind) ==
  /\ streamOn
  /\ dpc # "crashed"
  /\ frameCallback # 0
  /\ MayHappen
  /\ nFrames' = nFrames + 1
  /\ cur' = [id |-> nFrames + 1, w |-> kind.w, h |-> kind.h, bpr |-> kind.bpr]
  /\ cb' = frameCallback
  /\ new_sample_buffer' = IF callKind[frameCallback] = "single" THEN 0 ELSE nFrames + 1
  /\ new_pixel_buffer' = IF callKind[frameCallback] = "single" THEN 0
                         ELSE PixelWrapper(nFrames + 1, kind)
  /\ cbret' = FALSE
  /\ written' = {}
  /\ IF callKind[frameCallback] = "dummy"
       THEN tgt' = ProbeImage /\ hOld' = img[ProbeImage]
       ELSE tgt' = NoImage /\ hOld' = EmptyImg
  /\ img_out' = NoImage
  /\ dpc' = Head(StepsOf(frameCallback))
  /\ UNCHANGED <<dispVars, sessVars, semVars, nativeVars, callerVars, old_data_retainer, img,
                 nStops, nErrors, stats, stopAsked>>

\* ---------------------------------------------------------- frame delivery
\* stream:didOutputSampleBuffer:ofType: takes the monitor and invokes the
\* registered frame callback, which wraps the sample and its pixel buffer.
Deliver(kind) ==
  /\ streamOn
  /\ dpc = "idle"
  /\ frameCallback # 0
  /\ MayHappen
  /\ nFrames' = nFrames + 1
  /\ cur' = [id |-> nFrames + 1, w |-> kind.w, h |-> kind.h, bpr |-> kind.bpr]
  /\ cb' = frameCallback
  /\ new_sample_buffer' = IF callKind[frameCallback] = "single" THEN 0 ELSE nFrames + 1
  /\ new_pixel_buffer' = IF callKind[frameCallback] = "single" THEN 0
                         ELSE PixelWrapper(nFrames + 1, kind)
  /\ cbret' = FALSE
  /\ written' = {}
  /\ IF callKind[frameCallback] = "dummy"
       THEN tgt' = ProbeImage /\ hOld' = img[ProbeImage]
       ELSE tgt' = NoImage /\ hOld' = EmptyImg
  /\ img_out' = NoImage
  /\ dpc' = Head(StepsOf(frameCallback))
  /\ UNCHANGED <<dispVars, sessVars, semVars, nativeVars, callerVars, old_data_retainer, img,
                 nStops, nErrors, stats, stopAsked>>

\* The block captureSingleFrame registers: it retains the first sample it is
\* given, signals frameSemaphore and returns NO, every time.
SingleFrameCallback ==
  /\ dpc = "single"
  /\ dpc' = "ret"
  /\ IF ~frameReceived[cb]
       THEN /\ capturedBuffer' = [capturedBuffer EXCEPT ![cb] = [sample |-> cur.id, released |-> FALSE]]
            /\ frameReceived' = [frameReceived EXCEPT ![cb] = TRUE]
            /\ frameSemaphore' = [frameSemaphore EXCEPT ![cb] = @ + 1]
       ELSE UNCHANGED <<capturedBuffer, frameReceived, frameSemaphore>>
  /\ UNCHANGED <<dispVars, sessVars, semVars, nativeVars, callNo, callKind, callState, result,
                 permitted, frameResult, nTimeouts, cb, cur, new_sample_buffer, new_pixel_buffer, tgt,
                 img_out, old_data_retainer, cbret, img, histVars>>

\* capture() has returned from call k.
CallOver(k) == result[k] # "none"

\* The frame callback of capture() holds pull_free_image_cb and
\* push_captured_image_cb by reference; once the call has returned they may
\* refer to nothing.  Invoking one is then undefined: besides returning as
\* from a live callback, the invocation ends the process or never returns.
DanglingCall(step) ==
  /\ dpc = step
  /\ CallOver(cb)
  /\ dpc' \in {"crashed", "hung"}
  /\ UNCHANGED <<dispVars, sessVars, semVars, nativeVars, callerVars, cb, cur, new_sample_buffer,
                 new_pixel_buffer, tgt, img_out, old_data_retainer, cbret, img, histVars>>

\* pull_free_image_cb fails and the callback goes on to push_cb all the same.
PullFailPushes ==
  \/ DanglingCall("pull")
  \/ /\ dpc = "pull"
     /\ dpc' = "push"
     /\ stats' = [stats EXCEPT ![cb].pulls = @ + 1]
     /\ UNCHANGED <<dispVars, sessVars, semVars, nativeVars, callerVars, cb, cur, new_sample_buffer,
                    new_pixel_buffer, tgt, img_out, old_data_retainer, cbret, img,
                    nFrames, nStops, nErrors, hOld, written, stopAsked>>

\* pull_free_image_cb fails: the callback returns false.
PullFail ==
  \/ DanglingCall("pull")
  \/ /\ dpc = "pull"
     /\ dpc' = "ret"
     /\ stats' = [stats EXCEPT ![cb].pulls = @ + 1,
                               ![cb].late = @ + (IF stats[cb].rejects > 0 THEN 1 ELSE 0)]
     /\ UNCHANGED <<dispVars, sessVars, semVars, nativeVars, callerVars, cb, cur, new_sample_buffer,
                    new_pixel_buffer, tgt, img_out, old_data_retainer, cbret, img,
                    nFrames, nStops, nErrors, hOld, written, stopAsked>>

\* pull_free_image_cb supplies Image i of the pool.
Pull(i) ==
  \/ DanglingCall("pull")
  \/ /\ dpc = "pull"
     /\ tgt' = i
     /\ img_out' = i
     /\ hOld' = img[i]
     /\ dpc' = StepAfter(StepsOf(cb), "pull")
     /\ stats' = [stats EXCEPT ![cb].pulls = @ + 1,
                               ![cb].late = @ + (IF stats[cb].rejects > 0 THEN 1 ELSE 0)]
     /\ UNCHANGED <<dispVars, sessVars, semVars, nativeVars, callerVars, cb, cur, new_sample_buffer,
                    new_pixel_buffer, old_data_retainer, cbret, img,
                    nFrames, nStops, nErrors, written, stopAsked>>

\* The Retain Guard is constructed.
Guard ==
  /\ dpc = "guard"
  /\ old_data_retainer' = RetainOld(tgt)
  /\ dpc' = StepAfter(StepsOf(cb), "guard")
  /\ UNCHANGED <<dispVars, sessVars, semVars, nativeVars, callerVars, cb, cur, new_sample_buffer,
                 new_pixel_buffer, tgt, img_out, cbret, img, histVars>>

\* One field of the target Image is overwritten.
Overwrite(field) ==
  /\ dpc = field
  /\ field = "pixel_pitch" => img[tgt].width # 0
  /\ img' = [img EXCEPT ![tgt][field] = NewValue(field)]
  /\ written' = written \cup {field}
  /\ dpc' = StepAfter(StepsOf(cb), field)
  /\ UNCHANGED <<dispVars, sessVars, semVars, nativeVars, callerVars, cb, cur, new_sample_buffer,
                 new_pixel_buffer, tgt, img_out, old_data_retainer, cbret,
                 nFrames, nStops, nErrors, hOld, stats, stopAsked>>

\* img_out->row_pitch / img_out->width with width 0 is undefined.  Where the
\* divide instruction yields a value (AArch64 SDIV gives 0) the hand-off goes on.
DivideByZeroValue ==
  /\ dpc = "pixel_pitch"
  /\ img[tgt].width = 0
  /\ img' = [img EXCEPT ![tgt]["pixel_pitch"] = 0]
  /\ written' = written \cup {"pixel_pitch"}
  /\ dpc' = StepAfter(StepsOf(cb), "pixel_pitch")
  /\ UNCHANGED <<dispVars, sessVars, semVars, nativeVars, callerVars, cb, cur, new_sample_buffer,
                 new_pixel_buffer, tgt, img_out, old_data_retainer, cbret,
                 nFrames, nStops, nErrors, hOld, stats, stopAsked>>

\* Where the divide instruction traps (x86 IDIV raises SIGFPE) the process
\* ends inside the callback.
DivideByZeroTrap ==
  /\ dpc = "pixel_pitch"
  /\ img[tgt].width = 0
  /\ dpc' = "crashed"
  /\ UNCHANGED <<dispVars, sessVars, semVars, nativeVars, callerVars, cb, cur, new_sample_buffer,
                 new_pixel_buffer, tgt, img_out, old_data_retainer, cbret, img, histVars>>

\* The callback goes on without releasing the guard, which then lives until
\* the callback returns.
ReleaseLater ==
  /\ dpc = "release"
  /\ old_data_retainer' = old_data_retainer
  /\ stats' = [stats EXCEPT ![cb].handoffs = @ + 1]
  /\ dpc' = StepAfter(StepsOf(cb), "release")
  /\ UNCHANGED <<dispVars, sessVars, semVars, nativeVars, callerVars, cb, cur, new_sample_buffer,
                 new_pixel_buffer, tgt, img_out, cbret, img,
                 nFrames, nStops, nErrors, hOld, written, stopAsked>>

\* old_data_retainer = nullptr.
Release ==
  /\ dpc = "release"
  /\ old_data_retainer' = NoRetain
  /\ stats' = [stats EXCEPT ![cb].handoffs = @ + 1]
  /\ dpc' = StepAfter(StepsOf(cb), "release")
  /\ UNCHANGED <<dispVars, sessVars, semVars, nativeVars, callerVars, cb, cur, new_sample_buffer,
                 new_pixel_buffer, tgt, img_out, cbret, img,
                 nFrames, nStops, nErrors, hOld, written, stopAsked>>

\* push_cb is invoked and the callback then writes the Image it has passed on.
PushThenTouch(accept) ==
  \/ DanglingCall("push")
  \/ /\ dpc = "push"
     /\ cbret' = accept
     /\ stats' = [stats EXCEPT ![cb].pushes = @ + 1,
                               ![cb].accepts = @ + (IF accept THEN 1 ELSE 0),
                               ![cb].rejects = @ + (IF accept THEN 0 ELSE 1),
                               ![cb].late = @ + (IF stats[cb].rejects > 0 THEN 1 ELSE 0)]
     /\ dpc' = StepAfter(StepsOf(cb), "push")
     /\ img' = [img EXCEPT ![tgt].data = 0]
     /\ \E moved \in BOOLEAN : img_out' = IF moved THEN NoImage ELSE img_out
     /\ UNCHANGED <<dispVars, sessVars, semVars, nativeVars, callerVars, cb, cur, new_sample_buffer,
                    new_pixel_buffer, tgt, old_data_retainer,
                    nFrames, nStops, nErrors, hOld, written, stopAsked>>

\* push_captured_image_cb(std::move(img_out), true) accepts the Image or not.
Push(accept) ==
  \/ DanglingCall("push")
  \/ /\ dpc = "push"
     /\ cbret' = accept
     /\ stats' = [stats EXCEPT ![cb].pushes = @ + 1,
                               ![cb].accepts = @ + (IF accept THEN 1 ELSE 0),
                               ![cb].rejects = @ + (IF accept THEN 0 ELSE 1),
                               ![cb].late = @ + (IF stats[cb].rejects > 0 THEN 1 ELSE 0)]
     /\ dpc' = StepAfter(StepsOf(cb), "push")
     \* std::move(img_out) is a cast: the callback's reference goes only if the
     \* consumer moves from its argument
     /\ \E moved \in BOOLEAN : img_out' = IF moved THEN NoImage ELSE img_out
     /\ UNCHANGED <<dispVars, sessVars, semVars, nativeVars, callerVars, cb, cur, new_sample_buffer,
                    new_pixel_buffer, tgt, old_data_retainer, img,
                    nFrames, nStops, nErrors, hOld, written, stopAsked>>

\* The callback returns, its locals die; on `false` the delivery method calls
\* stopCapture; the monitor is left.
CallbackReturn ==
  /\ dpc = "ret"
  /\ new_sample_buffer' = 0
  /\ new_pixel_buffer' = 0
  /\ old_data_retainer' = NoRetain
  /\ tgt' = NoImage
  /\ img_out' = NoImage
  /\ cur' = NoFrame
  /\ cb' = 0
  /\ cbret' = FALSE
  /\ hOld' = EmptyImg
  /\ written' = {}
  /\ dpc' = "idle"
  /\ IF cbret THEN UNCHANGED <<requests, stopAsked>> ELSE StopCapture
  /\ UNCHANGED <<dispVars, sessVars, semVars, streamOn, handlers, callerVars, img,
                 nFrames, nStops, nErrors, stats>>

\* ------------------------------------------------------------ platf::display
\* The displays CGGetActiveDisplayList reports, in its order; the first is
\* the main display.
ActiveDisplays == <<1, 2>>
CGMainDisplayID == ActiveDisplays[1]

\* The pixel size of the display's current mode.
DisplayMode == [w |-> 4, h |-> 2]

\* hwdevice_type and display_name as callers pass them.
MemTypes == {"system", "videotoolbox", "cuda"}
DisplayNames ==
  {"", "2", "3", "x", "2x", " 2", "02", "+2", "-2", "2 ", "4294967298",
   "2", "\t2", "\n-2"}

\* std::atoi on a display name, as (int) strtol(s, NULL, 10) computes it where
\* long has 64 bits: leading white space is skipped, one sign is taken, the
\* digits up to the first other character are read, a value beyond long
\* saturates, and the conversion to int keeps the low 32 bits.  White space is
\* what isspace accepts in the C locale: the characters 32 and 9 to 13; the
\* vertical tab (11) has no escape and stands in its string as the character
\* itself.
IsSpace(c) == c \in {" ", "\t", "\n", "", "\f", "\r"}
IsDigit(c) == c \in {"0", "1", "2", "3", "4", "5", "6", "7", "8", "9"}
DigitValue(c) ==
  CASE c = "0" -> 0 [] c = "1" -> 1 [] c = "2" -> 2 [] c = "3" -> 3 [] c = "4" -> 4
    [] c = "5" -> 5 [] c = "6" -> 6 [] c = "7" -> 7 [] c = "8" -> 8 [] c = "9" -> 9

RECURSIVE SkipSpace(_)
SkipSpace(s) == IF s # "" /\ IsSpace(Head(s)) THEN SkipSpace(Tail(s)) ELSE s

RECURSIVE DigitPrefix(_)
DigitPrefix(s) ==
  IF s # "" /\ IsDigit(Head(s)) THEN Head(s) \o DigitPrefix(Tail(s)) ELSE ""

RECURSIVE SkipZeros(_)
SkipZeros(s) == IF s # "" /\ Head(s) = "0" THEN SkipZeros(Tail(s)) ELSE s

\* a > b for two digit strings of the same length.
RECURSIVE DigitsGreater(_, _)
DigitsGreater(a, b) ==
  IF a = "" THEN FALSE
  ELSE IF Head(a) # Head(b) THEN DigitValue(Head(a)) > DigitValue(Head(b))
  ELSE DigitsGreater(Tail(a), Tail(b))

\* The magnitude d exceeds limit, the largest magnitude a long of that sign holds.
BeyondLong(d, limit) ==
  \/ Len(d) > Len(limit)
  \/ Len(d) = Len(limit) /\ DigitsGreater(d, limit)

\* The value of a digit string modulo 2^32, as its high and low 16 bits.
RECURSIVE Low32(_, _, _)
Low32(d, hi, lo) ==
  IF d = "" THEN <<hi, lo>>
  ELSE LET l == lo * 10 + DigitValue(Head(d))
       IN Low32(Tail(d), (hi * 10 + l \div 65536) % 65536, l % 65536)

\* The 32 bits <<hi, lo>> read as an int.
AsInt(bits) ==
  IF bits[1] >= 32768 THEN (bits[1] - 65536) * 65536 + bits[2]
  ELSE bits[1] * 65536 + bits[2]

\* The two's complement of the 32 bits <<hi, lo>>.
Negated(bits) ==
  <<(65535 - bits[1] + (IF bits[2] = 0 THEN 1 ELSE 0)) % 65536, (65536 - bits[2]) % 65536>>

Atoi(s) ==
  LET t == SkipSpace(s)
      negative == t # "" /\ Head(t) = "-"
      u == IF t # "" /\ Head(t) \in {"+", "-"} THEN Tail(t) ELSE t
      d == SkipZeros(DigitPrefix(u))
  IN IF negative
       THEN IF BeyondLong(d, "9223372036854775808") THEN 0
            ELSE AsInt(Negated(Low32(d, 0, 0)))
       ELSE IF BeyondLong(d, "9223372036854775807") THEN -1
            ELSE AsInt(Low32(d, 0, 0))

\* The display the loop over displayNames selects: the active display whose
\* id the name spells, the main display if there is none or the name is empty.
SelectedDisplay(display_name) ==
  LET hits == {j \in 1..Len(ActiveDisplays) :
                 display_name # "" /\ Atoi(display_name) = ActiveDisplays[j]}
  IN IF hits = {} THEN CGMainDisplayID
     ELSE ActiveDisplays[CHOOSE j \in hits : \A h \in hits : h <= j]

\* What the shareable-content completion handler was called with: the query's
\* error, the displays of the content, whether SCStream could be constructed
\* and whether addStreamOutput accepted the output.
NoContent == [error |-> FALSE, displays |-> <<>>, made |-> FALSE, added |-> FALSE]
ContentDisplays == {<<>>, <<1>>, <<2>>, <<2, 1>>}

\* The pixel buffers Images handed to convert() can hold; 0 is no buffer.
Buffers == 1..(NumImages + 1)

\* this->frame == nullptr: set_frame has not been called on the device.
NoAVFrame == [set |-> FALSE, buf |-> 0, data3 |-> 0, width |-> 0, height |-> 0]

\* The encode side before any call.
NoDevice ==
  /\ device = "none"
  /\ pix_fmt = "none"
  /\ frame = NoAVFrame
  /\ retains = [b \in Buffers |-> 0]
  /\ releases = [b \in Buffers |-> 0]
  /\ convertRet = "none"
  /\ startedFormat = "none"
  /\ nDeviceCalls = 0
  /\ lastCall = "none"
  /\ convertImg = 0
  /\ oldFrames = [b \in Buffers |-> 0]

\* platf::display has not been called.
NoSession ==
  /\ display_id = 0
  /\ sc_capture = "unset"
  /\ displayRet = "none"
  /\ displayID = 0
  /\ frameWidth = 0
  /\ frameHeight = 0
  /\ pixelFormat = "none"
  /\ streamConfig = NoConfig
  /\ stream = NoStream
  /\ setupPc = "none"
  /\ setupSemaphore = 0
  /\ setupComplete = FALSE
  /\ waitResult = "none"
  /\ contentHandler = "none"
  /\ content = NoContent
  /\ NoDevice

\* platf::display has returned a display for the main display.
SessionReady ==
  /\ display_id = CGMainDisplayID
  /\ sc_capture = "self"
  /\ displayRet = "display"
  /\ displayID = CGMainDisplayID
  /\ frameWidth = DisplayMode.w
  /\ frameHeight = DisplayMode.h
  /\ pixelFormat = "32BGRA"
  /\ streamConfig = [pixelFormat |-> "32BGRA", width |-> DisplayMode.w, height |-> DisplayMode.h]
  /\ stream = [made |-> TRUE, pixelFormat |-> "32BGRA",
               width |-> DisplayMode.w, height |-> DisplayMode.h, updates |-> 0]
  /\ setupPc = "done"
  /\ setupSemaphore = 0
  /\ setupComplete = TRUE
  /\ waitResult = "signalled"
  /\ contentHandler = "ran"
  /\ content = [error |-> FALSE, displays |-> ActiveDisplays, made |-> TRUE, added |-> TRUE]
  /\ NoDevice

Init == InitCapture /\ SessionReady

InitDisplay == InitCapture /\ NoSession

\* platf::display up to the wait of initWithDisplay:frameRate: on its setup
\* semaphore, or its early return for a memory type it does not serve.
Display(hwdevice_type, display_name) ==
  /\ Alive
  /\ displayRet = "none"
  /\ setupPc = "none"
  /\ IF hwdevice_type # "system" /\ hwdevice_type # "videotoolbox"
       THEN /\ displayRet' = "nullptr"
            /\ UNCHANGED <<display_id, propVars, setupPc, contentHandler>>
       ELSE /\ display_id' = SelectedDisplay(display_name)
            /\ displayID' = SelectedDisplay(display_name)
            /\ pixelFormat' = "32BGRA"
            /\ frameWidth' = DisplayMode.w
            /\ frameHeight' = DisplayMode.h
            /\ contentHandler' = "pending"
            /\ setupPc' = "waiting"
            /\ UNCHANGED <<displayRet, streamConfig, stream>>
  /\ UNCHANGED <<macos14, captureVars, sc_capture, setupSemaphore, setupComplete, waitResult,
                 content, devVars>>

\* The display the completion handler binds to: the one asked for if the
\* content has it, else the content's first display, else none (0).
TargetDisplay(displays, id) ==
  IF \E j \in 1..Len(displays) : displays[j] = id THEN id
  ELSE IF Len(displays) > 0 THEN displays[1]
  ELSE 0

\* The completion handler of getShareableContentWithCompletionHandler: up to,
\* not including, its dispatch_semaphore_signal.  It runs whether or not the
\* caller is still waiting.  Inputs it does not look at are left at FALSE.
ContentHandler(error, displays, made, added) ==
  /\ Alive
  /\ contentHandler = "pending"
  /\ error => (displays = <<>> /\ ~made /\ ~added)
  /\ TargetDisplay(displays, displayID) = 0 => (~made /\ ~added)
  /\ ~made => ~added
  /\ content' = [error |-> error, displays |-> displays, made |-> made, added |-> added]
  /\ contentHandler' = "signal"
  /\ IF error \/ TargetDisplay(displays, displayID) = 0
       THEN UNCHANGED <<displayID, streamConfig, stream, setupComplete>>
       ELSE /\ displayID' = TargetDisplay(displays, displayID)
            /\ streamConfig' = [pixelFormat |-> pixelFormat, width |-> frameWidth,
                                height |-> frameHeight]
            /\ stream' = IF made
                           THEN [made |-> TRUE, pixelFormat |-> pixelFormat,
                                 width |-> frameWidth, height |-> frameHeight,
                                 updates |-> 0]
                           ELSE NoStream
            \* addStreamOutput sent to a nil stream does nothing and sets no error
            /\ setupComplete' = (~made \/ added)
  /\ UNCHANGED <<macos14, captureVars, display_id, sc_capture, displayRet, frameWidth, frameHeight,
                 pixelFormat, setupPc, setupSemaphore, waitResult, devVars>>

\* dispatch_semaphore_signal(setupSemaphore), the handler's last statement on
\* every path.
ContentSignal ==
  /\ Alive
  /\ contentHandler = "signal"
  /\ contentHandler' = "ran"
  /\ setupSemaphore' = setupSemaphore + 1
  /\ UNCHANGED <<macos14, captureVars, propVars, display_id, sc_capture, displayRet, setupPc,
                 setupComplete, waitResult, content, devVars>>

\* A session whose wait timed out even though it is marked complete.
SetupResultIgnoresWait(wait, complete) == IF complete THEN "self" ELSE "nil"

\* What initWithDisplay:frameRate: returns after its wait.
SetupResult(wait, complete) ==
  IF wait # "signalled" THEN "nil"
  ELSE IF ~complete THEN "nil"
  ELSE "self"

\* platf::display after initWithDisplay:frameRate: has returned.
DisplayReturn(wait) ==
  /\ waitResult' = wait
  /\ setupPc' = "done"
  /\ sc_capture' = SetupResult(wait, setupComplete)
  /\ displayRet' = IF SetupResult(wait, setupComplete) = "self" THEN "display" ELSE "nullptr"
  /\ UNCHANGED <<macos14, captureVars, propVars, display_id, setupComplete, contentHandler, content,
                 devVars>>

\* The 5 seconds of dispatch_semaphore_wait pass without a signal.
SetupTimeout ==
  /\ Alive
  /\ setupPc = "waiting"
  /\ setupSemaphore = 0
  /\ UNCHANGED setupSemaphore
  /\ DisplayReturn("timedout")

\* dispatch_semaphore_wait returns 0: the handler has signalled.
SetupSignalled ==
  /\ Alive
  /\ setupPc = "waiting"
  /\ setupSemaphore > 0
  /\ setupSemaphore' = setupSemaphore - 1
  /\ DisplayReturn("signalled")

\* --------------------------------------------------------- the encode device
\* Formats a caller can ask make_avcodec_encode_device for.
PixFmts == {"yuv420p", "nv12", "p010", "yuv420p10", "unknown"}

\* Frame sizes the encoder configures.
FrameSizes == {[w |-> 2, h |-> 1], [w |-> 4, h |-> 2]}

\* The device calls still allowed by the environment's budget.
MayCall == nDeviceCalls < MaxEvents

\* An init that binds the 8-bit format for p010 too.
InitPixelFormatAlways8(fmt) == "420YpCbCr8BiPlanarVideoRange"

\* The switch of nv12_zero_device::init: the native format bound for fmt.
InitPixelFormat(fmt) ==
  CASE fmt = "nv12" -> "420YpCbCr8BiPlanarVideoRange"
    [] fmt = "p010" -> "420YpCbCr10BiPlanarVideoRange"
    [] OTHER -> "420YpCbCr8BiPlanarVideoRange"

\* The device make_avcodec_encode_device returns for fmt.
DeviceFor(fmt) ==
  IF fmt = "yuv420p" THEN "conversion"
  ELSE IF fmt = "nv12" \/ fmt = "p010" THEN "zero_copy"
  ELSE "null"

\* The session pixel format after make_avcodec_encode_device(fmt).
PixelFormatAfter(fmt) ==
  IF fmt = "yuv420p" THEN "32BGRA"
  ELSE IF fmt = "nv12" \/ fmt = "p010" THEN InitPixelFormat(fmt)
  ELSE pixelFormat

\* free_buffer run for the buffer bound to the frame, if one is bound.
Unref == IF frame.buf # 0 THEN [releases EXCEPT ![frame.buf] = @ + 1] ELSE releases

\* sc_display_t::make_avcodec_encode_device: sets the session's pixel format
\* and makes a new device, which has no frame yet.  It frees nothing: the
\* frame the encoder had given the device made before stays bound to its
\* buffer until the encoder frees it.
MakeEncodeDevice(fmt) ==
  /\ Alive
  /\ displayRet = "display"
  /\ MayCall
  /\ nDeviceCalls' = nDeviceCalls + 1
  /\ lastCall' = "make"
  /\ pix_fmt' = fmt
  /\ device' = DeviceFor(fmt)
  /\ pixelFormat' = PixelFormatAfter(fmt)
  /\ oldFrames' = IF frame.buf # 0 THEN [oldFrames EXCEPT ![frame.buf] = @ + 1] ELSE oldFrames
  /\ frame' = NoAVFrame
  /\ UNCHANGED <<macos14, captureVars, displayID, frameWidth, frameHeight, streamConfig, stream,
                 setupVars, retains, releases, convertRet, startedFormat, convertImg>>

\* platf::free_frame on the frame of an earlier device that is bound to
\* buffer b: av_frame_free unreferences buf[0], which runs free_buffer.
FreeFrame(b) ==
  /\ Alive
  /\ oldFrames[b] > 0
  /\ oldFrames' = [oldFrames EXCEPT ![b] = @ - 1]
  /\ releases' = [releases EXCEPT ![b] = @ + 1]
  /\ UNCHANGED <<macos14, captureVars, propVars, setupVars, device, pix_fmt, frame, retains, convertRet,
                 startedFormat, nDeviceCalls, lastCall, convertImg>>

\* A set_frame that keeps the frame and tells the session nothing.
SetFrameNoPush(size) ==
  /\ Alive
  /\ device = "zero_copy"
  /\ ~frame.set
  /\ MayCall
  /\ nDeviceCalls' = nDeviceCalls + 1
  /\ lastCall' = "set_frame"
  /\ frame' = [set |-> TRUE, buf |-> 0, data3 |-> 0, width |-> size.w, height |-> size.h]
  /\ UNCHANGED <<macos14, captureVars, propVars, setupVars, device, pix_fmt,
                 retains, releases, convertRet, startedFormat, convertImg, oldFrames>>

\* nv12_zero_device::set_frame: keeps the encoder's frame and pushes its size
\* into the session through setResolution -> setFrameWidth:frameHeight:.
SetFrame(size) ==
  /\ Alive
  /\ device = "zero_copy"
  /\ ~frame.set
  /\ MayCall
  /\ nDeviceCalls' = nDeviceCalls + 1
  /\ lastCall' = "set_frame"
  /\ frame' = [set |-> TRUE, buf |-> 0, data3 |-> 0, width |-> size.w, height |-> size.h]
  /\ frameWidth' = size.w
  /\ frameHeight' = size.h
  /\ streamConfig' = IF streamConfig # NoConfig
                       THEN [streamConfig EXCEPT !.width = size.w, !.height = size.h]
                       ELSE streamConfig
  /\ stream' = IF streamConfig # NoConfig /\ stream.made /\ isCapturing
                 THEN [stream EXCEPT !.width = size.w, !.height = size.h,
                                     !.pixelFormat = streamConfig.pixelFormat,
                                     !.updates = @ + 1]
                 ELSE stream
  /\ UNCHANGED <<macos14, captureVars, displayID, pixelFormat, setupVars, device, pix_fmt,
                 retains, releases, convertRet, startedFormat, convertImg, oldFrames>>

\* A convert that unreferences the frame's buffer before it looks at the Image.
ConvertUnrefFirst(b) ==
  /\ Alive
  /\ device = "zero_copy"
  /\ MayCall
  /\ nDeviceCalls' = nDeviceCalls + 1
  /\ lastCall' = "convert"
  /\ convertImg' = b
  /\ IF ~frame.set
       THEN /\ dpc' = "crashed"
            /\ UNCHANGED <<frame, retains, releases, convertRet>>
       ELSE IF b = 0
         THEN /\ releases' = Unref
              /\ frame' = [frame EXCEPT !.buf = 0]
              /\ convertRet' = "-1"
              /\ UNCHANGED <<retains, dpc>>
         ELSE /\ releases' = Unref
              /\ retains' = [retains EXCEPT ![b] = @ + 1]
              /\ frame' = [frame EXCEPT !.buf = b, !.data3 = b]
              /\ convertRet' = "0"
              /\ UNCHANGED dpc
  /\ UNCHANGED <<sessVars, semVars, nativeVars, callerVars, cb, cur, new_sample_buffer,
                 new_pixel_buffer, tgt, img_out, old_data_retainer, cbret, img, histVars,
                 propVars, setupVars, device, pix_fmt, startedFormat, oldFrames, macos14>>

\* A convert that binds the new buffer without unreferencing the old one.
ConvertNoUnref(b) ==
  /\ Alive
  /\ device = "zero_copy"
  /\ frame.set
  /\ b # 0
  /\ MayCall
  /\ nDeviceCalls' = nDeviceCalls + 1
  /\ lastCall' = "convert"
  /\ convertImg' = b
  /\ retains' = [retains EXCEPT ![b] = @ + 1]
  /\ frame' = [frame EXCEPT !.buf = b, !.data3 = b]
  /\ convertRet' = "0"
  /\ UNCHANGED <<macos14, captureVars, propVars, setupVars, device, pix_fmt, releases, startedFormat,
                 oldFrames>>

\* nv12_zero_device::convert on an Image whose pixel wrapper holds buffer b
\* (0: the Image has no pixel wrapper, or the wrapper no buffer).  Without a
\* frame, av_buffer_unref(&frame->buf[0]) reads through a null pointer.
Convert(b) ==
  /\ Alive
  /\ device = "zero_copy"
  /\ MayCall
  /\ nDeviceCalls' = nDeviceCalls + 1
  /\ lastCall' = "convert"
  /\ convertImg' = b
  /\ IF b = 0
       THEN /\ convertRet' = "-1"
            /\ UNCHANGED <<frame, retains, releases, dpc>>
       ELSE IF ~frame.set
         THEN /\ dpc' = "crashed"
              /\ UNCHANGED <<frame, retains, releases, convertRet>>
         ELSE /\ releases' = Unref
              /\ retains' = [retains EXCEPT ![b] = @ + 1]
              /\ frame' = [frame EXCEPT !.buf = b, !.data3 = b]
              /\ convertRet' = "0"
              /\ UNCHANGED dpc
  /\ UNCHANGED <<sessVars, semVars, nativeVars, callerVars, cb, cur, new_sample_buffer,
                 new_pixel_buffer, tgt, img_out, old_data_retainer, cbret, img, histVars,
                 propVars, setupVars, device, pix_fmt, startedFormat, oldFrames, macos14>>

\* Session setup, device selection and the start of the stream.
NextDisplay ==
  \/ \E hw \in MemTypes, name \in DisplayNames : Display(hw, name)
  \/ \E error \in BOOLEAN, displays \in ContentDisplays, made \in BOOLEAN, added \in BOOLEAN :
       ContentHandler(error, displays, made, added)
  \/ ContentSignal
  \/ SetupTimeout
  \/ SetupSignalled
  \/ \E fmt \in PixFmts : MakeEncodeDevice(fmt)
  \/ \E size \in FrameSizes : SetFrame(size)
  \/ \E b \in {0} \cup Buffers : Convert(b)
  \/ \E b \in Buffers : FreeFrame(b)
  \/ Capture
  \/ \E ok \in BOOLEAN : NativeStart(ok)
  \/ \E k \in Calls : StartHandlerOk(k)

SpecDisplay == InitDisplay /\ [][NextDisplay]_vars

NativeStep == (\E ok \in BOOLEAN : NativeStart(ok)) \/ NativeStop

HandlerStep == \E k \in Calls : StartHandlerOk(k) \/ StartHandlerErr(k) \/ StopHandler(k)

CallbackStep ==
  \/ SingleFrameCallback
  \/ PullFail
  \/ \E i \in PoolImages : Pull(i)
  \/ Guard
  \/ \E field \in FieldNames : Overwrite(field)
  \/ Release
  \/ \E a \in BOOLEAN : Push(a)
  \/ CallbackReturn

Next ==
  \/ Capture
  \/ \E a \in BOOLEAN : DummyImg(a)
  \/ CaptureSingleFrame
  \/ SingleFrameWait
  \/ SingleFrameReturn
  \/ CaptureReturn
  \/ StopRequest
  \/ \E ok \in BOOLEAN : NativeStart(ok)
  \/ NativeStop
  \/ \E k \in Calls : StartHandlerOk(k)
  \/ \E k \in Calls : StartHandlerErr(k)
  \/ \E k \in Calls : StopHandler(k)
  \/ StreamError
  \/ \E kind \in FrameKinds : Deliver(kind)
  \/ PullFail
  \/ \E i \in PoolImages : Pull(i)
  \/ Guard
  \/ \E field \in FieldNames : Overwrite(field)
  \/ Release
  \/ \E a \in BOOLEAN : Push(a)
  \/ SingleFrameCallback
  \/ CallbackReturn

Spec == Init /\ [][Next]_vars

\* The same session when the stream also delivers samples without a pixel
\* buffer.
NextAnyFrame ==
  \/ Next
  \/ Deliver(NoPixels)
  \/ DivideByZeroValue
  \/ DivideByZeroTrap

SpecAnyFrame == Init /\ [][NextAnyFrame]_vars

\* The scheduling the code relies on: a released waiter returns, the stream
\* takes up every request and runs every completion handler, and a frame
\* callback that was invoked runs to its end.  Frame deliveries, stop requests
\* and stream errors are up to the environment.
FairSpec ==
  /\ Spec
  /\ WF_vars(CaptureReturn)
  /\ WF_vars(SingleFrameWait \/ SingleFrameReturn)
  /\ WF_vars(NativeStep)
  /\ WF_vars(HandlerStep)
  /\ WF_vars(CallbackStep)

\* ------------------------------------------------------------------ claims
Returned(k) == result[k] \in {"ok", "success", "error"}
Blocked(k) == callNo = k /\ callState = "waiting"
IsCapture(k) == callKind[k] = "capture"
SignalledBy(k, by) == \E j \in 1..Len(sigLog[k]) : sigLog[k][j].by = by

\* The three releasing events the specification names, for call k; a start
\* that failed is counted with the stream's terminal errors.
FrameHandedOff(k) == stats[k].pushes > 0
SessionStopped(k) == SignalledBy(k, "stop")
StreamFailed(k) == SignalledBy(k, "error") \/ SignalledBy(k, "startErr")

\* Nothing is left for the program or the stream to do: no released waiter,
\* no request the stream has not taken up, no completion handler to run, no
\* frame callback under way.  Only a new event of the environment changes
\* such a state.
Quiescent == ~ENABLED (CaptureReturn \/ NativeStep \/ HandlerStep \/ CallbackStep)

\* C1: capture() returns only after a frame was handed to push_cb,
\* the session was stopped or the stream failed, and it does not stay blocked
\* once one of the three has happened.
C1_ReturnsOnceFrameStopOrError ==
  \A k \in Calls : IsCapture(k) =>
    /\ Returned(k) => (FrameHandedOff(k) \/ SessionStopped(k) \/ StreamFailed(k))
    /\ ((FrameHandedOff(k) \/ SessionStopped(k) \/ StreamFailed(k)) /\ Quiescent)
         => Returned(k)

\* C2: once stopCapture has been called while capture() call k is blocked,
\* call k does not stay blocked: it has returned by the time nothing is left
\* to run.
C2_StopEventuallyReleases ==
  \A k \in Calls : (stopAsked[k] /\ Quiescent) => Returned(k)

\* C3: the semaphore of a call is signalled exactly once: never twice, and a
\* call that returned had one signal.
C3_SignalledExactlyOnce ==
  \A k \in Calls :
    /\ Len(sigLog[k]) <= 1
    /\ Returned(k) => Len(sigLog[k]) = 1

\* C4: while push_cb has accepted no frame of a capture() call, no frame is
\* passed to pull_cb or push_cb after the first rejected one, and the call
\* does not return an error.
C4_RejectEndsWithinOneFrame ==
  \A k \in Calls : (IsCapture(k) /\ stats[k].accepts = 0) =>
    /\ stats[k].late = 0
    /\ result[k] # "error"

\* An Image is visible to the consumer unless a hand-off into it is under way.
InHandoff(i) == tgt = i /\ dpc \in FieldNames \cup {"guard", "release"}

\* C5: the data pointer of an Image never refers to a released buffer, and
\* outside a hand-off it is the base address of the buffer of the Image's
\* installed pixel wrapper.
C5_DataNeverReleased ==
  \A i \in Images :
    /\ img[i].data # 0 =>
         (~PixelReleased(img[i].data) /\ ~SampleReleased(img[i].data))
    /\ ~InHandoff(i) => img[i].data = DataOf(img[i].pixel_buffer)

\* In the middle of a hand-off into an Image that already held a frame, with
\* both wrappers overwritten and the data pointer not yet, while a stop
\* completion is about to run.
C5_Witness ==
  /\ dpc = "data"
  /\ hOld.data # 0
  /\ img[tgt].data = hOld.data
  /\ \E k \in Calls : handlers[<<"stop", k>>] > 0

\* The Retain Guard as it must be while it is alive: the old state of the
\* target Image, taken before any field was written.
GuardOfOld == [live |-> TRUE, s |-> hOld.sample_buffer, p |-> hOld.pixel_buffer, d |-> hOld.data]

\* C6: in capture and dummy_img alike the guard is built from the Image's old
\* wrappers and data pointer before any field is written, is released only
\* after all seven fields are written, and until then the old wrappers keep a
\* holder.
C6_GuardBracketsOverwrite ==
  /\ dpc = "guard" => written = {}
  /\ old_data_retainer.live => old_data_retainer = GuardOfOld
  /\ (written # {} /\ ~old_data_retainer.live) => written = FieldNames
  /\ dpc \in FieldNames \cup {"release"} =>
       /\ hOld.sample_buffer # 0 => SampleUse(hOld.sample_buffer) > 0
       /\ hOld.pixel_buffer # 0 => PixelUse(hOld.pixel_buffer) > 0

\* A capture hand-off into an Image that held a frame: every field written,
\* the guard released, and the old wrappers released by that.
C6_Witness ==
  /\ dpc = "push"
  /\ written = FieldNames
  /\ ~old_data_retainer.live
  /\ hOld.sample_buffer # 0
  /\ SampleReleased(hOld.sample_buffer)
  /\ PixelReleased(hOld.pixel_buffer)

\* C7: a dummy_img call whose permission probe reports false returns the
\* permission-denied status and changes neither the session, its semaphores,
\* the native stream nor any Image.
C7_DeniedSkipsNativePath ==
  [][(callNo' = callNo + 1 /\ callKind'[callNo + 1] = "dummy" /\ ~permitted'[callNo + 1]) =>
       /\ result'[callNo + 1] = "denied"
       /\ UNCHANGED <<sessVars, semVars, nativeVars, callState, img>>]_vars

\* A dummy_img call that found the permission missing and returned "denied".
C7_Witness ==
  \E k \in Calls : callKind[k] = "dummy" /\ ~permitted[k] /\ result[k] = "denied"

\* C8: a permitted dummy_img call that returned ran the hand-off into the
\* probe Image exactly once, published nothing, and left the stream stopped.
C8_DummyExactlyOneFrame ==
  \A k \in Calls : (callKind[k] = "dummy" /\ permitted[k]) =>
    /\ stats[k].handoffs <= 1
    /\ stats[k].pushes = 0
    /\ Returned(k) => (result[k] = "success" /\ stats[k].handoffs = 1)
    /\ (Returned(k) /\ callNo = k) => ~streamOn

\* The start request of call k failed.
StartFailed(k) ==
  \E s \in Calls : \E j \in 1..Len(sigLog[s]) : sigLog[s][j] = [by |-> "startErr", of |-> k]

\* C9: a capture() whose stream could not be started returns an error; one
\* ended only by the consumer's callbacks returns no error.
C9_StartFailureIsError ==
  \A k \in Calls : (IsCapture(k) /\ Returned(k)) =>
    /\ StartFailed(k) => result[k] = "error"
    /\ (~StartFailed(k) /\ ~SignalledBy(k, "error")) => result[k] # "error"

\* C10: after the stream reported an unexpected stop to a blocked capture(),
\* the session is not capturing and the call returns an error.
C10_StreamErrorIsError ==
  \A k \in Calls : (IsCapture(k) /\ SignalledBy(k, "error")) =>
    /\ Blocked(k) => ~isCapturing
    /\ Returned(k) => result[k] = "error"

\* The capture() frame callback is past pull_cb without an Image: pull_cb
\* reported failure for the frame being delivered.
PullFailed ==
  cb # 0 /\ callKind[cb] = "capture" /\ tgt = NoImage /\ dpc \notin {"pull", "crashed", "hung"}

\* C11: when pull_cb reports failure for a delivered frame (it was invoked and
\* has returned without an Image) the callback goes
\* straight to its return with the value false, push_cb is not invoked for the
\* frame and no Image is modified; when the callback has returned, the sample
\* and pixel wrappers made for the frame have no holder left and the delivery
\* method has called stopCapture.
C11_PullFailureDropsFrame ==
  /\ [](PullFailed => (dpc = "ret" /\ ~cbret /\ ~old_data_retainer.live))
  /\ [][/\ (dpc = "pull" /\ dpc' # "pull" /\ tgt' = NoImage) =>
             (img' = img /\ stats'[cb].pushes = stats[cb].pushes)
        /\ (PullFailed /\ dpc' = "idle") =>
             /\ img' = img
             /\ stats'[cb].pushes = stats[cb].pushes
             /\ \A f \in 1..MaxEvents : f = cur.id =>
                  (SampleUse(f) = 0 /\ PixelUse(f) = 0)'
             /\ requests' = IF isCapturing
                              THEN Append(requests, [op |-> "stop", call |-> captureSemaphore])
                              ELSE requests]_vars

\* pull_cb has just failed for a frame of a capturing session whose pool
\* Image holds an earlier, accepted frame.
C11_Witness ==
  /\ PullFailed
  /\ isCapturing
  /\ stats[cb].accepts > 0
  /\ \E i \in PoolImages : img[i].data # 0

\* Stop requests made to the native stream while the semaphore of call k was
\* the session's: those queued, those whose completion is pending, and those
\* whose completion has run.
NativeStops(k) ==
  Cardinality({j \in 1..Len(requests) : requests[j] = [op |-> "stop", call |-> k]})
    + handlers[<<"stop", k>>]
    + Cardinality({p \in Calls \X (1..(2 * MaxEvents)) :
                     /\ p[2] <= Len(sigLog[p[1]])
                     /\ sigLog[p[1]][p[2]] = [by |-> "stop", of |-> k]})

\* C12: however often stop is requested during a call, the native stream is
\* asked to stop at most once and the call's semaphore is signalled by a stop
\* completion at most once.
C12_StopIsIdempotent ==
  \A k \in Calls :
    /\ NativeStops(k) <= 1
    /\ Cardinality({j \in 1..Len(sigLog[k]) : sigLog[k][j].by = "stop"}) <= 1

\* C17: once a hand-off has written the layout fields, the target Image
\* reports the width, height and bytes per row of the frame being delivered.
C17_ImageReportsFrameLayout ==
  (tgt # NoImage /\ dpc \in {"pixel_pitch", "release", "push", "ret"}) =>
    /\ img[tgt].width = cur.w
    /\ img[tgt].height = cur.h
    /\ img[tgt].row_pitch = cur.bpr

\* A hand-off into a pool Image that held a frame of another layout is complete.
C17_Witness ==
  /\ dpc = "push"
  /\ hOld.width # 0
  /\ hOld.width # cur.w
  /\ img[tgt].width = cur.w

\* C20: the capturing flag, the registered frame callback and the capture
\* semaphore do not change while the delivery method holds the monitor, that
\* is while a frame callback is under way.
C20_TransitionsUnderMonitor ==
  [][dpc # "idle" => UNCHANGED <<isCapturing, frameCallback, captureSemaphore>>]_vars

\* C16: while the process runs, every Image that has been through a hand-off
\* and is visible to the consumer has width > 0, height > 0 and pixel_pitch = row_pitch / width.
C16_PitchAndPositiveSize ==
  \A i \in Images : (Alive /\ img[i].sample_buffer # 0 /\ ~InHandoff(i)) =>
    /\ img[i].width > 0
    /\ img[i].height > 0
    /\ img[i].pixel_pitch = img[i].row_pitch \div img[i].width

\* The step is a call of make_avcodec_encode_device.
MakeStep == nDeviceCalls' = nDeviceCalls + 1 /\ lastCall' = "make"

\* C13: whatever the state of the session, make_avcodec_encode_device gives
\* for yuv420p the conversion device and session format 32BGRA, for nv12 the
\* zero-copy device and the 8-bit bi-planar format, for p010 the zero-copy
\* device and the 10-bit bi-planar format, and for any other format null with
\* the session format unchanged.
C13_DeviceByFormatAlone ==
  [][MakeStep =>
       CASE pix_fmt' = "yuv420p" ->
              device' = "conversion" /\ pixelFormat' = "32BGRA"
         [] pix_fmt' = "nv12" ->
              device' = "zero_copy" /\ pixelFormat' = "420YpCbCr8BiPlanarVideoRange"
         [] pix_fmt' = "p010" ->
              device' = "zero_copy" /\ pixelFormat' = "420YpCbCr10BiPlanarVideoRange"
         [] OTHER ->
              device' = "null" /\ pixelFormat' = pixelFormat]_vars

\* An unsupported format was refused after p010 had been selected: the
\* session still has the 10-bit bi-planar format.
C13_Witness ==
  /\ lastCall = "make"
  /\ pix_fmt \notin {"yuv420p", "nv12", "p010"}
  /\ device = "null"
  /\ pixelFormat = "420YpCbCr10BiPlanarVideoRange"

\* C14: when the stream takes up a start request while the zero-copy device
\* is selected, the pixel format of the configuration it starts with is the
\* session's pixel format.
C14_StartedInBoundFormat ==
  [][(/\ requests # <<>>
      /\ Head(requests).op = "start"
      /\ requests' = Tail(requests)
      /\ device = "zero_copy") => startedFormat' = pixelFormat]_vars

\* convert() has just been called with an Image that has a pixel buffer and
\* has returned 0.
ConvertSucceeds ==
  /\ nDeviceCalls' = nDeviceCalls + 1
  /\ lastCall' = "convert"
  /\ convertRet' = "0"
  /\ Alive'

\* C15: the retains convert() has taken on a pixel buffer exceed the releases
\* of them by one for each encoder frame bound to the buffer, the device's
\* own and those of earlier devices not yet freed, and by nothing otherwise;
\* a successful convert() binds the device's frame to the pixel buffer of the
\* Image it was given, taking one retain on it and releasing one retain of
\* the buffer bound before, and until the next successful convert() or a new
\* device the frame stays bound to that buffer.
C15_OneRetainOnBoundBuffer ==
  /\ [](/\ \A b \in Buffers :
            /\ releases[b] <= retains[b]
            /\ retains[b] - releases[b] = (IF frame.buf = b THEN 1 ELSE 0) + oldFrames[b]
        /\ (lastCall = "convert" /\ convertRet = "0" /\ Alive) =>
             (convertImg # 0 /\ frame.buf = convertImg /\ frame.data3 = convertImg))
  /\ [][/\ ConvertSucceeds =>
             /\ convertImg' # 0
             /\ frame'.buf = convertImg'
             /\ frame'.data3 = convertImg'
             /\ retains' = [retains EXCEPT ![convertImg'] = @ + 1]
             /\ releases' = IF frame.buf # 0
                              THEN [releases EXCEPT ![frame.buf] = @ + 1]
                              ELSE releases
        /\ frame'.buf # frame.buf =>
             (ConvertSucceeds \/ (lastCall' = "make" /\ frame'.buf = 0))]_vars

\* A second convert() has bound the buffer of its Image, another than the
\* first, and released the first.
C15_Witness ==
  /\ lastCall = "convert"
  /\ convertRet = "0"
  /\ frame.buf = convertImg
  /\ \E b \in Buffers : releases[b] > 0 /\ frame.buf # 0 /\ frame.buf # b

\* The display initWithDisplay:frameRate: was asked for is among the
\* displays of the shareable content.
RequestedDisplayFound ==
  \E j \in 1..Len(content.displays) : content.displays[j] = display_id

\* C18: platf::display returns a display only if the requested display was
\* found, the stream was constructed and the output was registered.
C18_SetupFailureYieldsNoSession ==
  displayRet = "display" =>
    (~content.error /\ RequestedDisplayFound /\ content.made /\ content.added)

\* C19: the setup wait can always end; a wait that timed out yields no
\* session; a failed setup stays failed whatever the completion handler does
\* later, and the shareable-content query is not made again.
C19_SetupWaitIsBounded ==
  /\ [](setupPc = "waiting" => ENABLED (SetupTimeout \/ SetupSignalled))
  /\ [](waitResult = "timedout" => (sc_capture = "nil" /\ displayRet = "nullptr"))
  /\ [][/\ displayRet = "nullptr" => displayRet' = "nullptr"
        /\ sc_capture = "nil" => sc_capture' = "nil"
        /\ setupPc = "done" => setupPc' = "done"
        /\ contentHandler \in {"signal", "ran"} => contentHandler' # "pending"]_vars

\* The wait timed out and the completion handler, running late, completed
\* the binding: there is a stream, setup is marked complete, no session.
C19_Witness ==
  /\ waitResult = "timedout"
  /\ contentHandler = "ran"
  /\ setupComplete
  /\ stream.made
  /\ displayRet = "nullptr"

\* C21: a frame is delivered only when no frame callback is under way and
\* nothing of the previous hand-off is left; while a callback is under way
\* neither the callback it runs for nor the registered callback changes, so
\* the hand-off of one frame ends before the next begins, also across calls
\* that replace the callback.
C21_HandoffsDoNotOverlap ==
  [][/\ nFrames' # nFrames =>
          /\ dpc = "idle"
          /\ cb = 0
          /\ tgt = NoImage
          /\ ~old_data_retainer.live
          /\ new_sample_buffer = 0
          /\ written = {}
     /\ dpc # "idle" =>
          /\ frameCallback' = frameCallback
          /\ dpc' # "idle" => (cb' = cb /\ cur' = cur)]_vars

\* The callback of a second call is handing off a frame after the callback of
\* the first call had handed off one.
C21_Witness ==
  /\ cb = 2
  /\ dpc \in FieldNames
  /\ stats[1].handoffs > 0

\* C22 as stated: a pool Image is read or written only between pull_cb
\* returning it and its being passed to push_cb, and once push_cb has been
\* invoked the session holds no reference to it.
C22_NoReferenceAfterPush ==
  /\ [](\A i \in PoolImages : (tgt = i /\ dpc = "ret") => ImageRefs(i) = 0)
  /\ [][\A i \in PoolImages :
          img'[i] # img[i] => (tgt = i /\ tgt' = i /\ dpc \in FieldNames)]_vars

\* C22: a pool Image changes only in the steps between pull_cb returning it
\* and its being passed to push_cb; from the invocation of push_cb on the
\* session leaves it alone; it goes on holding `av_img`, and `img_out` too
\* unless the consumer moved it out, until the callback returns, and holds no
\* reference between deliveries.
C22_TouchedOnlyBetweenPullAndPush ==
  /\ [](\A i \in PoolImages :
          /\ dpc \in {"idle", "pull"} => ImageRefs(i) = 0
          /\ tgt = i => ImageRefs(i) \in {1, 2}
          /\ (tgt = i /\ dpc # "ret") => ImageRefs(i) = 2
          /\ ImageRefs(i) > 0 => (tgt = i /\ cb # 0 /\ IsCapture(cb)))
  /\ [][\A i \in PoolImages :
          img'[i] # img[i] => (tgt = i /\ tgt' = i /\ dpc \in FieldNames)]_vars

\* push_cb has accepted an Image that holds the frame just delivered and has
\* not moved from its argument; the callback has not returned yet and still
\* holds `img_out` and `av_img`.
C22_Witness ==
  /\ dpc = "ret"
  /\ cbret
  /\ tgt \in PoolImages
  /\ ImageRefs(tgt) = 2
  /\ img[tgt].sample_buffer = new_sample_buffer

\* The frame a pixel wrapper was made for.
FrameOfWrapper(p) == IF p < 0 THEN 0 - p ELSE p

\* C23: an Image no hand-off is writing is either still as allocated, holding
\* no wrapper, or holds one sample wrapper and one pixel wrapper made for the
\* same frame, its data pointer being that pixel wrapper's base address.
C23_WrappersOfOneFrame ==
  \A i \in Images :
    ~InHandoff(i) =>
      \/ /\ img[i].sample_buffer = 0
         /\ img[i].pixel_buffer = 0
         /\ img[i].data = 0
      \/ /\ img[i].sample_buffer \in 1..nFrames
         /\ img[i].pixel_buffer # 0
         /\ FrameOfWrapper(img[i].pixel_buffer) = img[i].sample_buffer
         /\ img[i].data = DataOf(img[i].pixel_buffer)

\* After a frame the consumer rejected and a later call, a pool Image that
\* held an earlier frame has been handed off with a later one.
C23_Witness ==
  \E i \in PoolImages :
    /\ tgt = i
    /\ dpc = "ret"
    /\ hOld.sample_buffer # 0
    /\ img[i].sample_buffer = nFrames
    /\ img[i].pixel_buffer = nFrames
    /\ \E k \in Calls : stats[k].rejects > 0 /\ k # cb

\* The frames whose sample or pixel wrapper still has a holder.
HeldFrames == {f \in 1..nFrames : ~SampleReleased(f) \/ ~PixelReleased(f)}

\* C24: when the guard is about to be released it is the only holder of the
\* target Image's old wrappers, and releasing it releases them; a released
\* wrapper is never held again, so each buffer is released once; between
\* deliveries the only frames still held are those an Image holds, one per
\* Image, and every frame an Image held before is released.
C24_GuardIsLastHolder ==
  /\ [](/\ (dpc = "release" /\ hOld.sample_buffer # 0) =>
             /\ old_data_retainer.s = hOld.sample_buffer
             /\ old_data_retainer.p = hOld.pixel_buffer
             /\ SampleUse(hOld.sample_buffer) = 1
             /\ PixelUse(hOld.pixel_buffer) = 1
        /\ dpc = "idle" =>
             /\ HeldFrames = {img[i].sample_buffer : i \in Images} \ {0}
             /\ \A i \in Images : img[i].pixel_buffer = img[i].sample_buffer)
  /\ [][/\ \A f \in 1..nFrames :
             /\ SampleReleased(f) => SampleReleased(f)'
             /\ PixelReleased(f) => PixelReleased(f)'
        /\ (dpc = "release" /\ dpc' # "release" /\ hOld.sample_buffer # 0) =>
             /\ ~SampleReleased(hOld.sample_buffer)
             /\ ~PixelReleased(hOld.pixel_buffer)
             /\ SampleReleased(hOld.sample_buffer)'
             /\ PixelReleased(hOld.pixel_buffer)'
        /\ \A i \in Images :
             (img[i].sample_buffer # 0 /\ ~SampleReleased(img[i].sample_buffer)
                /\ SampleReleased(img[i].sample_buffer)') => dpc = "release"]_vars

\* Three frames have been handed off into the one pool Image: it holds the
\* third, the first two are released, and no delivery is under way.
C24_Witness ==
  /\ dpc = "idle"
  /\ nFrames = 3
  /\ \E i \in PoolImages : img[i].sample_buffer = 3
  /\ \E k \in Calls : stats[k].handoffs = 3
  /\ HeldFrames = {3}

\* C25: while the callback runs for a sample that carries no pixel buffer, no
\* guard is built from the target Image, no field of it is written, it stays
\* as it was and push_cb is not reached.
C25_NoPixelsAbortsAtTop ==
  (cb # 0 /\ new_pixel_buffer < 0) =>
    /\ ~old_data_retainer.live
    /\ written = {}
    /\ tgt # NoImage => img[tgt] = hOld
    /\ dpc # "push"

\* C26: a set_frame call on the zero-copy device leaves the session's
\* frameWidth and frameHeight and the stream configuration's width and
\* height equal to the frame's, and sends the stream one updateConfiguration
\* request, which carries that size, if the session is capturing when it
\* is called, none if it is not.
C26_SetFramePushesResolution ==
  [][(nDeviceCalls' = nDeviceCalls + 1 /\ lastCall' = "set_frame") =>
       /\ frame'.set
       /\ frameWidth' = frame'.width
       /\ frameHeight' = frame'.height
       /\ streamConfig'.width = frame'.width
       /\ streamConfig'.height = frame'.height
       /\ streamConfig'.pixelFormat = streamConfig.pixelFormat
       /\ IF isCapturing
            THEN /\ stream'.updates = stream.updates + 1
                 /\ stream'.width = frame'.width
                 /\ stream'.height = frame'.height
            ELSE stream' = stream]_vars

\* set_frame was called with a size other than the display's while the
\* session was capturing: the stream has been sent one update.
C26_Witness ==
  /\ lastCall = "set_frame"
  /\ isCapturing
  /\ stream.updates = 1
  /\ frame.width = 2
  /\ frameWidth = 2
  /\ streamConfig.width = 2

\* C27: no step of a frame callback invokes pull_cb or push_cb of a capture()
\* call that has returned.
C27_NoCallbackAfterReturn ==
  [][\A k \in Calls :
       (IsCapture(k) /\ Returned(k) /\ cb = k) =>
         ~(dpc \in {"pull", "push"} /\ dpc' # dpc)]_vars

\* C28: the completion of a stop requested during capture() call k never
\* signals the semaphore created by capture() call k + 1.
C28_StopSignalsOwnCall ==
  \A k \in Calls :
    (k + 1 \in Calls /\ IsCapture(k) /\ callNo > k /\ IsCapture(k + 1)) =>
      \A j \in 1..Len(sigLog[k + 1]) :
        ~(sigLog[k + 1][j].by = "stop" /\ sigLog[k + 1][j].of = k)

\* C29: a convert() given an Image with no pixel wrapper, or whose wrapper
\* holds no native buffer, returns -1 and leaves the frame's buffer binding
\* as it was: nothing is released, nothing retained, and the process goes on.
C29_ConvertWithoutBufferIsNoOp ==
  [][(nDeviceCalls' = nDeviceCalls + 1 /\ lastCall' = "convert" /\ convertImg' = 0) =>
       /\ convertRet' = "-1"
       /\ frame' = frame
       /\ retains' = retains
       /\ releases' = releases
       /\ dpc' = dpc]_vars

\* convert() has returned -1 for an Image without a buffer while the frame
\* was bound to the buffer of an earlier convert, which it still holds.
C29_Witness ==
  /\ lastCall = "convert"
  /\ convertImg = 0
  /\ convertRet = "-1"
  /\ frame.buf # 0
  /\ frame.data3 = frame.buf
  /\ retains[frame.buf] - releases[frame.buf] = 1

====
